---------------------------- MODULE Spec2Model ----------------------------
(***************************************************************************)
(* A model of coveralls-python: configuration resolution (api.py,          *)
(* Coveralls.__init__ / load_config / ensure_token), git metadata with its *)
(* GIT_* fallback (git.py, git_info), and report assembly (api.py,         *)
(* create_data / merge / create_report).                                   *)
(*                                                                         *)
(* Representation of Python values.  A value is a record [t, s]: t is the  *)
(* Python type ("none", "str", "bool", "int") and s a sequence of symbols. *)
(* A symbol is either one significant character ("/", a digit, a quote, a  *)
(* backslash, a letter of "true") or an opaque chunk of text that holds    *)
(* none of the significant characters.  A dict is a function whose DOMAIN  *)
(* is its set of keys.                                                     *)
(***************************************************************************)
EXTENDS Integers, Sequences, FiniteSets, TLC

VARIABLES
    \* ---- inputs of Coveralls(token_required, service_name, **kwargs)
    environ,            \* os.environ: variable name -> value, None when unset
    cfgfile,            \* the .coveralls.yml file in the working directory
    kwargs,             \* **kwargs of __init__
    service_name,       \* the service_name argument
    token_required,     \* the token_required argument
    \* ---- state of the Coveralls instance during construction
    config,             \* self.config
    tokreq,             \* self._token_required
    host,               \* self._coveralls_host
    detected,           \* (name, job, number, pr) of load_config_from_ci_environment
    pc,                 \* position inside __init__
    raised,             \* the exception that left __init__, "" when none
    \* ---- one call of git_info (git.py)
    gpc,                \* position inside git_info
    branch,             \* its local branch
    head,               \* its local head
    remotes,            \* its local remotes
    caught,             \* the exception its except clause caught, "" when none
    warned,             \* whether log.warning was called
    git_result,         \* what it returned
    \* ---- the report document of a constructed instance
    data,               \* self._data
    coverage_now,       \* what get_coverage() returns if called now
    git_now,            \* what git_info() returns if called now
    op,                 \* the last method called, with its argument
    returned,           \* what the last call returned
    counts,             \* calls made; calls of get_coverage and of git_info
    log_string,         \* what the last create_report logged
    \* ---- one run of main (cli.py) and the transport it calls
    options,            \* the command line, as docopt parses it
    mpc,                \* position inside main
    exit_code,          \* <<code>> once the process has exited, <<>> before
    events,             \* the steps taken so far, in order
    posts,              \* the calls of httpx.post made so far
    response,           \* what the last httpx.post returned or raised
    result              \* what the last submission call returned or raised

cfgvars == <<environ, cfgfile, kwargs, service_name, token_required,
             config, tokreq, host, detected, pc, raised>>

gitvars == <<gpc, branch, head, remotes, caught, warned, git_result>>

docvars == <<data, coverage_now, git_now, op, returned, counts, log_string>>

mainvars == <<options, mpc, exit_code, events, posts, response, result>>

vars == <<cfgvars, gitvars, docvars, mainvars>>

-----------------------------------------------------------------------------
(* Python values *)

None == [t |-> "none", s |-> <<>>]
Str(s) == [t |-> "str", s |-> s]
PyTrue == [t |-> "bool", s |-> <<"True">>]
PyInt(digits) == [t |-> "int", s |-> digits]

\* bool(v)
Truthy(v) ==
    CASE v.t = "none" -> FALSE
      [] v.t = "str"  -> v.s # <<>>
      [] v.t = "bool" -> v.s = <<"True">>
      [] v.t = "int"  -> v.s # <<"0">>

\* a or b
Or(a, b) == IF Truthy(a) THEN a ELSE b

EmptyDict == [k \in {} |-> None]

\* d.get(k)
DictGet(d, k) == IF k \in DOMAIN d THEN d[k] ELSE None

\* d.update(e)
DictUpdate(d, e) ==
    [k \in DOMAIN d \cup DOMAIN e |-> IF k \in DOMAIN e THEN e[k] ELSE d[k]]

\* d[k] = v
DictSet(d, k, v) == [x \in DOMAIN d \cup {k} |-> IF x = k THEN v ELSE d[x]]

\* d.setdefault(k, v)
DictSetDefault(d, k, v) == IF k \in DOMAIN d THEN d ELSE DictSet(d, k, v)

\* d.pop(k)
DictPop(d, k) == [x \in DOMAIN d \ {k} |-> d[x]]

\* {key: value for key, value in d.items() if value}
NonEmpty(d) == [k \in {x \in DOMAIN d : Truthy(d[x])} |-> d[k]]

-----------------------------------------------------------------------------
(* String helpers *)

Digits == {"0", "1", "2", "3", "4", "5", "6", "7", "8", "9"}

\* s.split(sep): the segments of s between occurrences of sep
RECURSIVE SplitAcc(_, _, _)
SplitAcc(s, sep, cur) ==
    IF s = <<>> THEN <<cur>>
    ELSE IF Head(s) = sep THEN <<cur>> \o SplitAcc(Tail(s), sep, <<>>)
    ELSE SplitAcc(Tail(s), sep, Append(cur, Head(s)))

Split(s, sep) == SplitAcc(s, sep, <<>>)

\* s.split(sep)[-1]
SplitLast(s, sep) == LET p == Split(s, sep) IN p[Len(p)]

\* s.startswith(prefix)
StartsWith(s, prefix) ==
    /\ Len(s) >= Len(prefix)
    /\ SubSeq(s, 1, Len(prefix)) = prefix

\* NUMBER_REGEX = (\d+)$ : the digits that end s
RECURSIVE TrailingDigits(_)
TrailingDigits(s) ==
    IF s = <<>> THEN <<>>
    ELSE IF s[Len(s)] \in Digits
         THEN Append(TrailingDigits(SubSeq(s, 1, Len(s) - 1)), s[Len(s)])
         ELSE <<>>

\* NUMBER_REGEX.findall(s): at most one match, the trailing run of digits
NUMBER_REGEX_findall(s) ==
    IF TrailingDigits(s) = <<>> THEN <<>> ELSE <<TrailingDigits(s)>>

\* str.lower(), on the letters the model's values use
LowerChar(c) ==
    CASE c = "T" -> "t" [] c = "R" -> "r" [] c = "U" -> "u" [] c = "E" -> "e"
      [] OTHER -> c

Lower(s) == [i \in 1..Len(s) |-> LowerChar(s[i])]

-----------------------------------------------------------------------------
(* os.environ *)

Sentinels ==
    {"APPVEYOR", "BUILDKITE", "CIRCLECI", "GITHUB_ACTIONS", "JENKINS_HOME",
     "TRAVIS", "SEMAPHORE"}

GenericVars ==
    {"CI_NAME", "CI_BUILD_NUMBER", "CI_BUILD_URL", "CI_JOB_ID", "CI_BRANCH",
     "CI_PULL_REQUEST"}

ProviderVars ==
    {"APPVEYOR_PULL_REQUEST_NUMBER", "APPVEYOR_BUILD_ID",
     "BUILDKITE_PULL_REQUEST", "BUILDKITE_JOB_ID",
     "CIRCLE_WORKFLOW_ID", "CIRCLE_BUILD_NUM", "CIRCLE_NODE_INDEX",
     "GITHUB_TOKEN", "GITHUB_REF", "GITHUB_RUN_ID",
     "BUILD_NUMBER",
     "TRAVIS_PULL_REQUEST", "TRAVIS_JOB_ID",
     "SEMAPHORE_JOB_UUID", "SEMAPHORE_JOB_ID", "SEMAPHORE_EXECUTABLE_UUID",
     "SEMAPHORE_WORKFLOW_ID", "SEMAPHORE_BRANCH_ID", "SEMAPHORE_GIT_PR_NUMBER"}

CoverallsVars ==
    {"COVERALLS_HOST", "COVERALLS_PARALLEL", "COVERALLS_FLAG_NAME",
     "COVERALLS_REPO_TOKEN", "COVERALLS_SERVICE_JOB_ID",
     "COVERALLS_SERVICE_JOB_NUMBER", "COVERALLS_SERVICE_NAME",
     "COVERALLS_SERVICE_NUMBER"}

EnvVars == Sentinels \cup GenericVars \cup ProviderVars \cup CoverallsVars

\* os.environ.get(name)
Getenv(e, name) == e[name]

\* os.environ.get(name, '')
GetenvOr(e, name, default) == IF e[name] = None THEN Str(default) ELSE e[name]

-----------------------------------------------------------------------------
(* CI providers: each rule returns (name, job, number, pr) *)

Result(name, job, number, pr) ==
    [name |-> Str(<<name>>), job |-> job, number |-> number, pr |-> pr]

load_config_from_appveyor(e) ==
    LET pr == Getenv(e, "APPVEYOR_PULL_REQUEST_NUMBER")
    IN  Result("appveyor", Getenv(e, "APPVEYOR_BUILD_ID"), None, pr)

load_config_from_buildkite(e) ==
    LET pr0 == Getenv(e, "BUILDKITE_PULL_REQUEST")
        pr  == IF pr0 = Str(<<"false">>) THEN None ELSE pr0
    IN  Result("buildkite", Getenv(e, "BUILDKITE_JOB_ID"), None, pr)

load_config_from_circle(e) ==
    LET number == Or(Getenv(e, "CIRCLE_WORKFLOW_ID"),
                     Getenv(e, "CIRCLE_BUILD_NUM"))
        url    == Or(Getenv(e, "CI_PULL_REQUEST"), Str(<<>>))
        pr     == Or(Str(SplitLast(url.s, "/")), None)
        job    == Getenv(e, "CIRCLE_NODE_INDEX")
    IN  Result("circleci", job, number, pr)

\* self.config['repo_token'] = os.environ.get('GITHUB_TOKEN')
GithubTokenOverride(cfg, e) == DictSet(cfg, "repo_token", Getenv(e, "GITHUB_TOKEN"))

load_config_from_github(e) ==
    LET ref == GetenvOr(e, "GITHUB_REF", <<>>).s
        pr  == IF StartsWith(ref, <<"refs", "/", "pull", "/">>)
               THEN Str(Split(ref, "/")[3])
               ELSE None
        job == Getenv(e, "GITHUB_RUN_ID")
        number == Getenv(e, "GITHUB_RUN_ID")
    IN  Result("github", job, number, pr)

load_config_from_jenkins(e) ==
    LET pr == Or(Str(SplitLast(GetenvOr(e, "CI_PULL_REQUEST", <<>>).s, "/")),
                 None)
    IN  Result("jenkins", Getenv(e, "BUILD_NUMBER"), None, pr)

load_config_from_travis(e) ==
    LET pr == Getenv(e, "TRAVIS_PULL_REQUEST")
    IN  Result("travis-ci", Getenv(e, "TRAVIS_JOB_ID"), None, pr)

load_config_from_semaphore(e) ==
    LET job    == Or(Getenv(e, "SEMAPHORE_JOB_UUID"),
                     Getenv(e, "SEMAPHORE_JOB_ID"))
        number == Or(Getenv(e, "SEMAPHORE_EXECUTABLE_UUID"),
                     Getenv(e, "SEMAPHORE_WORKFLOW_ID"))
        pr     == Or(Getenv(e, "SEMAPHORE_BRANCH_ID"),
                     Getenv(e, "SEMAPHORE_GIT_PR_NUMBER"))
    IN  Result("semaphore-ci", job, number, pr)

\* mutant: the unknown provider reports a job id
load_config_from_unknown_WithJob ==
    Result("coveralls-python", Str(<<"0">>), None, None)

load_config_from_unknown ==
    Result("coveralls-python", None, None, None)

load_config_from_generic_ci_environment(cfg, e) ==
    LET base == [k \in {"service_name", "service_number", "service_build_url",
                        "service_job_id", "service_branch"} |->
                   CASE k = "service_name"      -> Getenv(e, "CI_NAME")
                     [] k = "service_number"    -> Getenv(e, "CI_BUILD_NUMBER")
                     [] k = "service_build_url" -> Getenv(e, "CI_BUILD_URL")
                     [] k = "service_job_id"    -> Getenv(e, "CI_JOB_ID")
                     [] k = "service_branch"    -> Getenv(e, "CI_BRANCH")]
        pr_match == NUMBER_REGEX_findall(GetenvOr(e, "CI_PULL_REQUEST", <<>>).s)
        conf == IF pr_match # <<>>
                THEN DictSet(base, "service_pull_request",
                             Str(pr_match[Len(pr_match)]))
                ELSE base
    IN  DictUpdate(cfg, NonEmpty(conf))

\* mutant: the Travis branch is tried before the GitHub Actions branch
SelectedSentinel_TravisFirst(e) ==
    IF Truthy(Getenv(e, "APPVEYOR")) THEN "APPVEYOR"
    ELSE IF Truthy(Getenv(e, "BUILDKITE")) THEN "BUILDKITE"
    ELSE IF Truthy(Getenv(e, "CIRCLECI")) THEN "CIRCLECI"
    ELSE IF Truthy(Getenv(e, "TRAVIS")) THEN "TRAVIS"
    ELSE IF Truthy(Getenv(e, "GITHUB_ACTIONS")) THEN "GITHUB_ACTIONS"
    ELSE IF Truthy(Getenv(e, "JENKINS_HOME")) THEN "JENKINS_HOME"
    ELSE IF Truthy(Getenv(e, "SEMAPHORE")) THEN "SEMAPHORE"
    ELSE "unknown"

\* The if/elif chain of load_config_from_ci_environment: the branch taken.
SelectedSentinel(e) ==
    IF Truthy(Getenv(e, "APPVEYOR")) THEN "APPVEYOR"
    ELSE IF Truthy(Getenv(e, "BUILDKITE")) THEN "BUILDKITE"
    ELSE IF Truthy(Getenv(e, "CIRCLECI")) THEN "CIRCLECI"
    ELSE IF Truthy(Getenv(e, "GITHUB_ACTIONS")) THEN "GITHUB_ACTIONS"
    ELSE IF Truthy(Getenv(e, "JENKINS_HOME")) THEN "JENKINS_HOME"
    ELSE IF Truthy(Getenv(e, "TRAVIS")) THEN "TRAVIS"
    ELSE IF Truthy(Getenv(e, "SEMAPHORE")) THEN "SEMAPHORE"
    ELSE "unknown"

\* self._token_required after the chain: the Travis branch clears it.
TokenRequiredAfterDetection(treq, e) ==
    IF SelectedSentinel(e) = "TRAVIS" THEN FALSE ELSE treq

load_config_from_ci_environment(cfg, treq, e) ==
    LET c0  == load_config_from_generic_ci_environment(cfg, e)
        sel == SelectedSentinel(e)
        c1  == IF sel = "GITHUB_ACTIONS" THEN GithubTokenOverride(c0, e) ELSE c0
        r   == CASE sel = "APPVEYOR"       -> load_config_from_appveyor(e)
                 [] sel = "BUILDKITE"      -> load_config_from_buildkite(e)
                 [] sel = "CIRCLECI"       -> load_config_from_circle(e)
                 [] sel = "GITHUB_ACTIONS" -> load_config_from_github(e)
                 [] sel = "JENKINS_HOME"   -> load_config_from_jenkins(e)
                 [] sel = "TRAVIS"         -> load_config_from_travis(e)
                 [] sel = "SEMAPHORE"      -> load_config_from_semaphore(e)
                 [] OTHER                  -> load_config_from_unknown
        c2  == DictSetDefault(c1, "service_name", r.name)
        c3  == IF Truthy(r.job) THEN DictSet(c2, "service_job_id", r.job)
               ELSE c2
        c4  == IF Truthy(r.number) THEN DictSet(c3, "service_number", r.number)
               ELSE c3
        c5  == IF Truthy(r.pr) THEN DictSet(c4, "service_pull_request", r.pr)
               ELSE c4
    IN  [config |-> c5,
         tokreq |-> TokenRequiredAfterDetection(treq, e),
         result |-> r]

-----------------------------------------------------------------------------
(* COVERALLS_* environment variables *)

\* the fields table of load_config_from_environment: variable -> key
fields ==
    {<<"COVERALLS_FLAG_NAME", "flag_name">>,
     <<"COVERALLS_REPO_TOKEN", "repo_token">>,
     <<"COVERALLS_SERVICE_JOB_ID", "service_job_id">>,
     <<"COVERALLS_SERVICE_JOB_NUMBER", "service_job_number">>,
     <<"COVERALLS_SERVICE_NAME", "service_name">>,
     <<"COVERALLS_SERVICE_NUMBER", "service_number">>}

\* for var, key in fields.items(): value = get(var); if value: config[key] = value
StoreEnvFields(cfg, e) ==
    LET set == {f \in fields : Truthy(Getenv(e, f[1]))}
    IN  [k \in DOMAIN cfg \cup {f[2] : f \in set} |->
           IF \E f \in set : f[2] = k
           THEN Getenv(e, (CHOOSE f \in set : f[2] = k)[1])
           ELSE cfg[k]]

load_config_from_environment(cfg, h, e) ==
    LET coveralls_host == Getenv(e, "COVERALLS_HOST")
        h1 == IF Truthy(coveralls_host) THEN coveralls_host ELSE h
        parallel ==
            Lower(GetenvOr(e, "COVERALLS_PARALLEL", <<>>).s) = <<"t", "r", "u", "e">>
        c1 == IF parallel THEN DictSet(cfg, "parallel", PyTrue) ELSE cfg
    IN  [config |-> StoreEnvFields(c1, e), host |-> h1]

-----------------------------------------------------------------------------
(* .coveralls.yml *)

NoExc == ""

\* mutant: the file's entries do not replace entries already present
load_config_from_file_KeepsExisting(cfg, f) ==
    IF f.kind = "mapping"
    THEN [config |-> DictUpdate(f.content, cfg), raised |-> NoExc]
    ELSE [config |-> cfg,
          raised |-> CASE f.kind = "malformed" -> "YAMLError"
                       [] f.kind = "empty" -> "TypeError"
                       [] OTHER -> NoExc]

\* mutant: the OSError of a missing file is not caught
load_config_from_file_MissingRaises(cfg, f) ==
    CASE f.kind = "missing"   -> [config |-> cfg, raised |-> "OSError"]
      [] f.kind = "noyaml"    -> [config |-> cfg, raised |-> NoExc]
      [] f.kind = "malformed" -> [config |-> cfg, raised |-> "YAMLError"]
      [] f.kind = "empty"     -> [config |-> cfg, raised |-> "TypeError"]
      [] f.kind = "mapping"   -> [config |-> DictUpdate(cfg, f.content),
                                  raised |-> NoExc]

\* cfgfile.kind:
\*   "missing"   open() raises OSError
\*   "noyaml"    the file opens, import yaml raises ImportError
\*   "malformed" yaml.safe_load raises yaml.YAMLError
\*   "empty"     yaml.safe_load returns None (an empty file)
\*   "mapping"   yaml.safe_load returns the dict cfgfile.content
load_config_from_file(cfg, f) ==
    CASE f.kind = "missing"   -> [config |-> cfg, raised |-> NoExc]
      [] f.kind = "noyaml"    -> [config |-> cfg, raised |-> NoExc]
      [] f.kind = "malformed" -> [config |-> cfg, raised |-> "YAMLError"]
      [] f.kind = "empty"     -> [config |-> cfg, raised |-> "TypeError"]
      [] f.kind = "mapping"   -> [config |-> DictUpdate(cfg, f.content),
                                  raised |-> NoExc]

-----------------------------------------------------------------------------
(* the rest of load_config, and ensure_token *)

DefaultHost == Str(<<"https:", "/", "/", "coveralls.io", "/">>)

\* self.config.update(kwargs); pop coveralls_host; service_name override
ApplyCallSite(cfg, h, kw, sname) ==
    LET c1 == DictUpdate(cfg, kw)
        hasHost == Truthy(DictGet(c1, "coveralls_host"))
        h1 == IF hasHost THEN c1["coveralls_host"] ELSE h
        c2 == IF hasHost THEN DictPop(c1, "coveralls_host") ELSE c1
        c3 == IF Truthy(sname) THEN DictSet(c2, "service_name", sname) ELSE c2
    IN  [config |-> c3, host |-> h1]

\* mutant: the waiver is ignored
ensure_token_IgnoresWaiver(cfg, treq, e) ==
    IF Truthy(DictGet(cfg, "repo_token")) THEN NoExc
    ELSE "CoverallsException"

ensure_token(cfg, treq, e) ==
    IF Truthy(DictGet(cfg, "repo_token")) \/ ~treq THEN NoExc
    ELSE "CoverallsException"

\* which of the two messages ensure_token raises with
ensure_token_message(e) ==
    IF Truthy(Getenv(e, "GITHUB_ACTIONS")) THEN "GITHUB_TOKEN is not set"
    ELSE "Not on TravisCI"

-----------------------------------------------------------------------------
(* Inputs explored *)

\* the number of environment variables set at once in EnvInputs
MaxEnvVars == 3

TrueStr == Str(<<"t", "r", "u", "e">>)

\* the values a set variable is given
EnvValues(v) ==
    CASE v \in Sentinels -> {TrueStr}
      [] v = "CI_PULL_REQUEST" ->
            {Str(<<"https:", "/", "/", "x", "/", "pull", "/", "1", "7">>),
             Str(<<"pr", "9">>),
             Str(<<"x", "/">>)}
      [] v = "GITHUB_REF" ->
            {Str(<<"refs", "/", "pull", "/", "4", "2", "/", "merge">>),
             Str(<<"refs", "/", "heads", "/", "main">>)}
      [] v = "BUILDKITE_PULL_REQUEST" -> {Str(<<"false">>), Str(<<"7">>)}
      [] v = "COVERALLS_PARALLEL" ->
            {TrueStr, Str(<<"T", "r", "u", "e">>), Str(<<"false">>)}
      [] v = "GITHUB_TOKEN" -> {Str(<<"GITHUB_TOKEN">>), Str(<<>>)}
      [] OTHER -> {Str(<<v>>)}

SettingsOf(names) == UNION {{<<v, x>> : x \in EnvValues(v)} : v \in names}

AllSettings == SettingsOf(EnvVars)

\* the environment in which exactly the settings of set are made
EnvOf(set) ==
    [v \in EnvVars |->
        IF \E p \in set : p[1] = v
        THEN (CHOOSE p \in set : p[1] = v)[2]
        ELSE None]

OneValueEach(set) == \A p, q \in set : p[1] = q[1] => p = q

RECURSIVE SettingsUpTo(_)
SettingsUpTo(n) ==
    IF n = 0 THEN {{}}
    ELSE LET prev == SettingsUpTo(n - 1)
         IN  prev \cup {s \in {q \cup {x} : q \in prev, x \in AllSettings} :
                          OneValueEach(s)}

FromFile == Str(<<"from_file">>)
FromKwargs == Str(<<"from_kwargs">>)

\* the keys a config file or a caller may give
InputKeys ==
    {"repo_token", "service_name", "service_job_id", "service_job_number",
     "service_number", "service_branch", "service_pull_request",
     "service_build_url", "parallel", "flag_name", "base_dir", "src_dir",
     "config_file", "coveralls_host"}

NoFile == [kind |-> "missing", content |-> EmptyDict]

One(k, v) == [x \in {k} |-> v]

FileChoices(k) ==
    {NoFile,
     [kind |-> "mapping", content |-> One(k, FromFile)],
     [kind |-> "mapping", content |-> One(k, None)]}

\* a file that is missing, unusable, or a mapping
FileKinds(k) ==
    FileChoices(k) \cup
    {[kind |-> "noyaml", content |-> One(k, FromFile)],
     [kind |-> "malformed", content |-> EmptyDict],
     [kind |-> "empty", content |-> EmptyDict],
     [kind |-> "mapping", content |-> EmptyDict],
     [kind |-> "mapping", content |-> One("repo_token", PyInt(<<"1", "2">>))]}

\* what main passes: config_file, base_dir, src_dir (cli.py)
CliKwargs ==
    [k \in {"config_file", "base_dir", "src_dir"} |->
        IF k = "config_file" THEN Str(<<".coveragerc">>) ELSE Str(<<>>)]

\* service_name is a named parameter: it never arrives in kwargs
KwargsChoices(k) ==
    {EmptyDict} \cup (IF k = "service_name" THEN {} ELSE {One(k, FromKwargs)})

ServiceNameChoices(k) ==
    IF k = "service_name" THEN {None, Str(<<>>), Str(<<"svc">>)} ELSE {None}

\* settings through which CI detection can give a key
CiChoices ==
    {{}} \cup {{p} : p \in SettingsOf(GenericVars)}
    \cup {{<<"GITHUB_ACTIONS", TrueStr>>, p} :
             p \in SettingsOf({"GITHUB_TOKEN", "GITHUB_RUN_ID", "GITHUB_REF"})}
    \cup {{<<"TRAVIS", TrueStr>>, p} :
             p \in SettingsOf({"TRAVIS_JOB_ID", "TRAVIS_PULL_REQUEST"})}
    \cup {{<<"CIRCLECI", TrueStr>>, <<"CIRCLE_BUILD_NUM", Str(<<"CIRCLE_BUILD_NUM">>)>>}}

CoverallsChoices == {{}} \cup {{p} : p \in SettingsOf(CoverallsVars)}

NoResult == [name |-> None, job |-> None, number |-> None, pr |-> None]

\* no call of git_info is under way
GitIdle ==
    /\ gpc = "idle"
    /\ branch = None
    /\ head = EmptyDict
    /\ remotes = <<>>
    /\ caught = NoExc
    /\ warned = FALSE
    /\ git_result = EmptyDict

NoData == [built |-> FALSE]

\* no report document yet
DocIdle ==
    /\ data = NoData
    /\ coverage_now = [kind |-> "ok", files |-> <<>>]
    /\ git_now = EmptyDict
    /\ op = [name |-> "none"]
    /\ returned = [exc |-> NoExc]
    /\ counts = [calls |-> 0, coverage |-> 0, git |-> 0]
    /\ log_string = <<>>

NoOptions ==
    [debug |-> FALSE, output |-> FALSE, submit |-> FALSE, finish |-> FALSE,
     merge |-> FALSE, service |-> None]

NoResponse == [kind |-> "none"]

\* main is not running
MainIdle ==
    /\ options = NoOptions
    /\ mpc = "idle"
    /\ exit_code = <<>>
    /\ events = <<>>
    /\ posts = <<>>
    /\ response = NoResponse
    /\ result = [exc |-> NoExc]

Start(e, f, kw, sname, treq) ==
    /\ environ = e
    /\ cfgfile = f
    /\ kwargs = kw
    /\ service_name = sname
    /\ token_required = treq
    /\ config = EmptyDict
    /\ tokreq = treq
    /\ host = DefaultHost
    /\ detected = NoResult
    /\ pc = "ci"
    /\ raised = NoExc

\* any few environment variables, no file, no call-site override
EnvInputs ==
    \E set \in SettingsUpTo(MaxEnvVars), treq \in BOOLEAN :
        Start(EnvOf(set), NoFile, EmptyDict, None, treq)

\* any set of sentinels, with every provider's variables set
LoadedInputs ==
    \E on \in SUBSET Sentinels, generic \in BOOLEAN, treq \in BOOLEAN :
        LET names == on \cup ProviderVars
                       \cup (IF generic THEN GenericVars ELSE {})
            set  == {<<v, CHOOSE x \in EnvValues(v) : Truthy(x)
                                     /\ x # Str(<<"false">>)
                                     /\ x # Str(<<"pr", "9">>)
                                     /\ x # Str(<<"x", "/">>)>> : v \in names}
        IN  Start(EnvOf(set), NoFile, EmptyDict, None, treq)

\* one key, given or not by each of the four sources
SourceInputs ==
    \E k \in InputKeys, ci \in CiChoices, cov \in CoverallsChoices,
       treq \in BOOLEAN :
        \E f \in FileChoices(k), kw \in KwargsChoices(k),
           sname \in ServiceNameChoices(k) :
            Start(EnvOf(ci \cup cov), f, kw, sname, treq)

\* the states of the config file, and the arguments main passes
FileInputs ==
    \E k \in {"repo_token", "service_name", "flag_name"},
       cov \in CoverallsChoices, treq \in BOOLEAN :
        \E f \in FileKinds(k), kw \in KwargsChoices(k) \cup {CliKwargs},
           sname \in ServiceNameChoices(k) :
            Start(EnvOf(cov), f, kw, sname, treq)

ConfigInit == EnvInputs \/ LoadedInputs \/ SourceInputs \/ FileInputs

-----------------------------------------------------------------------------
(* Coveralls.__init__, one action per call it makes *)

LoadConfigFromCiEnvironment ==
    /\ pc = "ci"
    /\ LET r == load_config_from_ci_environment(config, tokreq, environ)
       IN  /\ config' = r.config
           /\ tokreq' = r.tokreq
           /\ detected' = r.result
    /\ pc' = "env"
    /\ UNCHANGED <<environ, cfgfile, kwargs, service_name, token_required,
                   host, raised, gitvars, docvars,
                   mainvars>>

LoadConfigFromEnvironment ==
    /\ pc = "env"
    /\ LET r == load_config_from_environment(config, host, environ)
       IN  /\ config' = r.config
           /\ host' = r.host
    /\ pc' = "file"
    /\ UNCHANGED <<environ, cfgfile, kwargs, service_name, token_required,
                   tokreq, detected, raised, gitvars, docvars,
                   mainvars>>

LoadConfigFromFile ==
    /\ pc = "file"
    /\ LET r == load_config_from_file(config, cfgfile)
       IN  /\ config' = r.config
           /\ raised' = r.raised
           /\ pc' = IF r.raised = NoExc THEN "callsite" ELSE "raised"
    /\ UNCHANGED <<environ, cfgfile, kwargs, service_name, token_required,
                   tokreq, host, detected, gitvars, docvars,
                   mainvars>>

LoadConfigCallSite ==
    /\ pc = "callsite"
    /\ LET r == ApplyCallSite(config, host, kwargs, service_name)
       IN  /\ config' = r.config
           /\ host' = r.host
    /\ pc' = "ensure"
    /\ UNCHANGED <<environ, cfgfile, kwargs, service_name, token_required,
                   tokreq, detected, raised, gitvars, docvars,
                   mainvars>>

EnsureToken ==
    /\ pc = "ensure"
    /\ raised' = ensure_token(config, tokreq, environ)
    /\ pc' = IF raised' = NoExc THEN "done" ELSE "raised"
    /\ UNCHANGED <<environ, cfgfile, kwargs, service_name, token_required,
                   config, tokreq, host, detected, gitvars, docvars,
                   mainvars>>

ConfigNext ==
    \/ LoadConfigFromCiEnvironment
    \/ LoadConfigFromEnvironment
    \/ LoadConfigFromFile
    \/ LoadConfigCallSite
    \/ EnsureToken

-----------------------------------------------------------------------------
(* git.py *)

Whitespace == {" ", "\t", "\n"}

RECURSIVE LStrip(_)
LStrip(s) ==
    IF s # <<>> /\ Head(s) \in Whitespace THEN LStrip(Tail(s)) ELSE s

RECURSIVE RStrip(_)
RStrip(s) ==
    IF s # <<>> /\ s[Len(s)] \in Whitespace
    THEN RStrip(SubSeq(s, 1, Len(s) - 1)) ELSE s

\* s.strip()
Strip(s) == RStrip(LStrip(s))

\* s.split(sep, n): at most n splits
RECURSIVE SplitMaxAcc(_, _, _, _)
SplitMaxAcc(s, sep, n, cur) ==
    IF n = 0 THEN <<cur \o s>>
    ELSE IF s = <<>> THEN <<cur>>
    ELSE IF Head(s) = sep THEN <<cur>> \o SplitMaxAcc(Tail(s), sep, n - 1, <<>>)
    ELSE SplitMaxAcc(Tail(s), sep, n, Append(cur, Head(s)))

SplitMax(s, sep, n) == SplitMaxAcc(s, sep, n, <<>>)

\* s.splitlines()
SplitLines(s) == IF s = <<>> THEN <<>> ELSE Split(s, "\n")

\* s.split(): the words between runs of whitespace
RECURSIVE WordsAcc(_, _)
WordsAcc(s, cur) ==
    IF s = <<>> THEN (IF cur = <<>> THEN <<>> ELSE <<cur>>)
    ELSE IF Head(s) \in Whitespace
         THEN (IF cur = <<>> THEN <<>> ELSE <<cur>>) \o WordsAcc(Tail(s), <<>>)
         ELSE WordsAcc(Tail(s), Append(cur, Head(s)))

Words(s) == WordsAcc(s, <<>>)

\* What running a git command does: it prints stdout and exits 0 ("ok"), exits
\* non-zero ("exit": subprocess.CalledProcessError), or cannot be started
\* because git is not installed ("absent": FileNotFoundError, an OSError).
NoCommand == [kind |-> "none"]

Outcomes(stdout) ==
    {[kind |-> "ok", stdout |-> stdout], [kind |-> "exit"], [kind |-> "absent"]}

\* run_command returns the stripped stdout, or raises
run_command(o) ==
    CASE o.kind = "ok"     -> [exc |-> NoExc, out |-> Str(Strip(o.stdout))]
      [] o.kind = "exit"   -> [exc |-> "CoverallsException", out |-> None]
      [] o.kind = "absent" -> [exc |-> "OSError", out |-> None]

gitlog(o) == run_command(o)

BranchVars ==
    <<"APPVEYOR_REPO_BRANCH", "BUILDKITE_BRANCH", "CI_BRANCH", "CIRCLE_BRANCH",
      "GIT_BRANCH", "TRAVIS_BRANCH", "BRANCH_NAME">>

\* the first non-empty variable of BranchVars from position i on, else None
RECURSIVE FirstBranchVar(_, _)
FirstBranchVar(e, i) ==
    IF i > Len(BranchVars) THEN None
    ELSE Or(Getenv(e, BranchVars[i]), FirstBranchVar(e, i + 1))

\* whether git_branch runs git rev-parse --abbrev-ref HEAD
BranchRunsGit(e) ==
    /\ ~Truthy(Getenv(e, "GITHUB_ACTIONS"))
    /\ ~Truthy(FirstBranchVar(e, 1))

git_branch(e, o) ==
    IF Truthy(Getenv(e, "GITHUB_ACTIONS"))
    THEN LET github_ref == Getenv(e, "GITHUB_REF")
         IN  IF /\ Truthy(github_ref)
                /\ \/ StartsWith(github_ref.s, <<"refs", "/", "heads", "/">>)
                   \/ StartsWith(github_ref.s, <<"refs", "/", "tags", "/">>)
             THEN [exc |-> NoExc,
                   out |-> LET p == SplitMax(github_ref.s, "/", 2)
                           IN  Str(p[Len(p)])]
             ELSE [exc |-> NoExc, out |-> Getenv(e, "GITHUB_HEAD_REF")]
    ELSE IF Truthy(FirstBranchVar(e, 1))
         THEN [exc |-> NoExc, out |-> FirstBranchVar(e, 1)]
         ELSE run_command(o)

HeadFields ==
    <<"id", "author_name", "author_email", "committer_name",
      "committer_email", "message">>

\* the --pretty=format of each head field
HeadFormat ==
    <<"%H", "%aN", "%ae", "%cN", "%ce", "%s">>

\* the GIT_* variable of each head field
HeadVar ==
    <<"GIT_ID", "GIT_AUTHOR_NAME", "GIT_AUTHOR_EMAIL", "GIT_COMMITTER_NAME",
      "GIT_COMMITTER_EMAIL", "GIT_MESSAGE">>

\* the remotes of the lines of git remote -v that hold (fetch)
ParseRemotes(out) ==
    LET IsFetch(line) == \E i \in 1..Len(line) : line[i] = "(fetch)"
        lines == SelectSeq(SplitLines(out), IsFetch)
    IN  [i \in 1..Len(lines) |->
            [name |-> Str(Words(lines[i])[1]), url |-> Str(Words(lines[i])[2])]]

GitDict(b, h, r) ==
    [k \in {"git"} |-> [branch |-> b, head |-> h, remotes |-> r]]

\* except (CoverallsException, OSError)
Catches(exc) == exc \in {"CoverallsException", "OSError"}

\* mutant: the empty structure is returned only when every head field is empty
git_info_fallback_AnyField(e) ==
    LET b == Getenv(e, "GIT_BRANCH")
        h == [f \in {HeadFields[i] : i \in 1..6} |->
                Getenv(e, HeadVar[CHOOSE i \in 1..6 : HeadFields[i] = f])]
        r == <<[name |-> Getenv(e, "GIT_REMOTE"), url |-> Getenv(e, "GIT_URL")]>>
    IN  IF \A f \in DOMAIN h : ~Truthy(h[f])
        THEN [branch |-> b, head |-> h, remotes |-> r, warned |-> TRUE,
              result |-> EmptyDict]
        ELSE [branch |-> b, head |-> h, remotes |-> r, warned |-> FALSE,
              result |-> GitDict(b, h, r)]

\* the except clause of git_info
git_info_fallback(e) ==
    LET b == Getenv(e, "GIT_BRANCH")
        h == [f \in {HeadFields[i] : i \in 1..6} |->
                Getenv(e, HeadVar[CHOOSE i \in 1..6 : HeadFields[i] = f])]
        r == <<[name |-> Getenv(e, "GIT_REMOTE"), url |-> Getenv(e, "GIT_URL")]>>
    IN  IF ~(\A f \in DOMAIN h : Truthy(h[f]))
        THEN [branch |-> b, head |-> h, remotes |-> r, warned |-> TRUE,
              result |-> EmptyDict]
        ELSE [branch |-> b, head |-> h, remotes |-> r, warned |-> FALSE,
              result |-> GitDict(b, h, r)]

(* git_info, one action per git command it runs *)

\* an exception raised inside the try block
GitRaise(exc) ==
    /\ caught' = (IF Catches(exc) THEN exc ELSE caught)
    /\ gpc' = (IF Catches(exc) THEN "fallback" ELSE "raised")

GitBranch ==
    /\ gpc = "branch"
    /\ \E o \in (IF BranchRunsGit(environ)
                 THEN Outcomes(<<"main", "\n">>) ELSE {NoCommand}) :
          LET r == git_branch(environ, o)
          IN  IF r.exc = NoExc
              THEN /\ branch' = r.out
                   /\ gpc' = "log"
                   /\ UNCHANGED caught
              ELSE /\ GitRaise(r.exc)
                   /\ UNCHANGED branch
    /\ UNCHANGED <<head, remotes, warned, git_result, cfgvars, docvars,
                   mainvars>>

GitLog ==
    /\ gpc = "log"
    /\ LET i == Cardinality(DOMAIN head) + 1
       IN  \E o \in Outcomes(<<HeadFormat[i], "\n">>) :
              LET r == gitlog(o)
              IN  IF r.exc = NoExc
                  THEN /\ head' = DictSet(head, HeadFields[i], r.out)
                       /\ gpc' = (IF i = Len(HeadFields) THEN "remotes" ELSE "log")
                       /\ UNCHANGED caught
                  ELSE /\ GitRaise(r.exc)
                       /\ UNCHANGED head
    /\ UNCHANGED <<branch, remotes, warned, git_result, cfgvars, docvars,
                   mainvars>>

RemoteOutputs ==
    {<<>>,
     <<"origin", "\t", "https:", "/", "/", "host", "/", "repo.git", " ",
       "(fetch)", "\n",
       "origin", "\t", "https:", "/", "/", "host", "/", "repo.git", " ",
       "(push)", "\n">>}

GitRemotes ==
    /\ gpc = "remotes"
    /\ \E out \in RemoteOutputs :
          \E o \in Outcomes(out) :
              LET r == run_command(o)
              IN  IF r.exc = NoExc
                  THEN /\ remotes' = ParseRemotes(r.out.s)
                       /\ git_result' = GitDict(branch, head, remotes')
                       /\ gpc' = "done"
                       /\ UNCHANGED caught
                  ELSE /\ GitRaise(r.exc)
                       /\ UNCHANGED <<remotes, git_result>>
    /\ UNCHANGED <<branch, head, warned, cfgvars, docvars,
                   mainvars>>

GitFallback ==
    /\ gpc = "fallback"
    /\ LET r == git_info_fallback(environ)
       IN  /\ branch' = r.branch
           /\ head' = r.head
           /\ remotes' = r.remotes
           /\ warned' = r.warned
           /\ git_result' = r.result
    /\ gpc' = "done"
    /\ UNCHANGED <<caught, cfgvars, docvars,
                   mainvars>>

GitNext == GitBranch \/ GitLog \/ GitRemotes \/ GitFallback

GitEnvVars ==
    {"GITHUB_ACTIONS", "GITHUB_REF", "GITHUB_HEAD_REF", "GIT_REMOTE", "GIT_URL"}
    \cup {BranchVars[i] : i \in 1..Len(BranchVars)}
    \cup {HeadVar[i] : i \in 1..Len(HeadVar)}

\* the variables that decide the branch, a few ways
BranchSettings ==
    {{},
     {<<"GITHUB_ACTIONS", TrueStr>>,
      <<"GITHUB_REF", Str(<<"refs", "/", "heads", "/", "fix", "/", "one">>)>>},
     {<<"GITHUB_ACTIONS", TrueStr>>,
      <<"GITHUB_REF", Str(<<"refs", "/", "pull", "/", "4", "2", "/", "merge">>)>>,
      <<"GITHUB_HEAD_REF", Str(<<"GITHUB_HEAD_REF">>)>>},
     {<<"CI_BRANCH", Str(<<"CI_BRANCH">>)>>},
     {<<"BRANCH_NAME", Str(<<"BRANCH_NAME">>)>>}}

GitEnvOf(set) ==
    [v \in GitEnvVars |->
        IF \E p \in set : p[1] = v
        THEN (CHOOSE p \in set : p[1] = v)[2]
        ELSE None]

GitInit ==
    /\ \E hs \in SUBSET {HeadVar[i] : i \in 1..Len(HeadVar)},
          os \in SUBSET {"GIT_BRANCH", "GIT_REMOTE", "GIT_URL"},
          bs \in BranchSettings,
          blank \in SUBSET {"GIT_MESSAGE"} :
            environ = GitEnvOf(bs \cup {<<v, Str(<<v>>)>> : v \in (hs \ blank) \cup os}
                                  \cup {<<v, Str(<<>>)>> : v \in blank})
    /\ gpc = "branch"
    /\ branch = None
    /\ head = EmptyDict
    /\ remotes = <<>>
    /\ caught = NoExc
    /\ warned = FALSE
    /\ git_result = EmptyDict

\* a constructed instance, its construction not under study
Constructed ==
    /\ cfgfile = NoFile
    /\ kwargs = EmptyDict
    /\ service_name = None
    /\ token_required = TRUE
    /\ tokreq = TRUE
    /\ host = DefaultHost
    /\ detected = NoResult
    /\ pc = "done"
    /\ raised = NoExc

InitGit == GitInit /\ Constructed /\ config = EmptyDict /\ DocIdle /\ MainIdle

SpecGit == InitGit /\ [][GitNext]_vars

(* Properties of git_info *)

\* the head the GIT_* variables give
EnvHead ==
    [f \in {HeadFields[i] : i \in 1..6} |->
        environ[HeadVar[CHOOSE i \in 1..6 : HeadFields[i] = f]]]

EnvGit ==
    GitDict(environ["GIT_BRANCH"], EnvHead,
            <<[name |-> environ["GIT_REMOTE"], url |-> environ["GIT_URL"]]>>)

\* C5 as claimed: a failed query never makes git_info raise; it returns the
\* metadata of the GIT_* variables, and the empty structure (with a warning)
\* only when all head fields from the environment are empty.
C5_Claimed ==
    /\ gpc # "raised"
    /\ (gpc = "done" /\ caught # NoExc) =>
          IF \A f \in DOMAIN EnvHead : ~Truthy(EnvHead[f])
          THEN git_result = EmptyDict /\ warned
          ELSE git_result = EnvGit /\ ~warned

\* C5 amended: a failed query never makes git_info raise; it returns the
\* metadata of the GIT_* variables when all six head fields from the
\* environment are non-empty, and the empty structure (with a warning) as soon
\* as one of them is empty.
C5_Fallback ==
    /\ gpc # "raised"
    /\ (gpc = "done" /\ caught # NoExc) =>
          IF \A f \in DOMAIN EnvHead : Truthy(EnvHead[f])
          THEN git_result = EnvGit /\ ~warned
          ELSE git_result = EmptyDict /\ warned

\* the last query failed after git had answered the others, and the result is
\* that of the environment
C5_Witness ==
    /\ gpc = "done"
    /\ caught = "CoverallsException"
    /\ Cardinality(DOMAIN head) = 6
    /\ git_result = EnvGit
    /\ git_result # EmptyDict

-----------------------------------------------------------------------------
(* Properties of configuration resolution *)

\* the configuration keys of the data model
RecognizedKeys ==
    {"repo_token", "service_name", "service_job_id", "service_job_number",
     "service_number", "service_branch", "service_pull_request",
     "service_build_url", "parallel", "flag_name", "base_dir", "src_dir",
     "config_file"}

\* load_config ran to its end (ensure_token may then have raised)
Merged ==
    \/ pc \in {"ensure", "done"}
    \/ pc = "raised" /\ raised = "CoverallsException"

\* what each source gives on its own, as a dict
CiSupplied == load_config_from_ci_environment(EmptyDict, TRUE, environ).config
EnvSupplied == load_config_from_environment(EmptyDict, DefaultHost, environ).config
FileSupplied == IF cfgfile.kind = "mapping" THEN cfgfile.content ELSE EmptyDict
CallSiteSupplied ==
    IF Truthy(service_name) THEN DictSet(kwargs, "service_name", service_name)
    ELSE kwargs

\* the sources from the highest precedence to the lowest
SourcesByPrecedence == <<CallSiteSupplied, FileSupplied, EnvSupplied, CiSupplied>>

\* C1: once load_config has run, every recognized key holds the value given by
\* the highest-precedence source that gives it (call site > config file >
\* COVERALLS_* variables > CI detection), and is absent when no source gives it.
C1_Precedence ==
    Merged =>
        LET src == SourcesByPrecedence
        IN  \A k \in RecognizedKeys :
              LET having == {i \in 1..4 : k \in DOMAIN src[i]}
              IN  IF having = {} THEN k \notin DOMAIN config
                  ELSE /\ k \in DOMAIN config
                       /\ config[k] =
                             src[CHOOSE i \in having : \A j \in having : i <= j][k]

\* a key given by all four sources ends with the call site's value
C1_Witness ==
    /\ pc = "done"
    /\ \E k \in RecognizedKeys :
          /\ \A i \in 1..4 : k \in DOMAIN SourcesByPrecedence[i]
          /\ config[k] = FromKwargs

\* the sentinels in the order the detection tries them
ProviderOrder ==
    <<"APPVEYOR", "BUILDKITE", "CIRCLECI", "GITHUB_ACTIONS", "JENKINS_HOME",
      "TRAVIS", "SEMAPHORE">>

FirstSentinelSet ==
    LET on == {i \in 1..Len(ProviderOrder) : Truthy(environ[ProviderOrder[i]])}
    IN  IF on = {} THEN "unknown"
        ELSE ProviderOrder[CHOOSE i \in on : \A j \in on : i <= j]

\* C2: construction raises CoverallsException exactly when the merged
\* configuration has no non-empty repo_token and the requirement was not waived
\* (token_required=False, or Travis was the provider detection chose).
C2_TokenRequired ==
    (pc \in {"done", "raised"} /\ raised \notin {"YAMLError", "TypeError"}) =>
        (raised = "CoverallsException" <=>
            /\ ~Truthy(DictGet(config, "repo_token"))
            /\ token_required
            /\ FirstSentinelSet # "TRAVIS")

\* the token error is raised although TRAVIS is set: a provider of higher
\* priority was chosen, so nothing waived the requirement
C2_Witness ==
    /\ pc = "raised"
    /\ raised = "CoverallsException"
    /\ Truthy(environ["TRAVIS"])

\* the rule of a provider, by its sentinel
RuleOf(sentinel) ==
    CASE sentinel = "APPVEYOR"       -> load_config_from_appveyor(environ)
      [] sentinel = "BUILDKITE"      -> load_config_from_buildkite(environ)
      [] sentinel = "CIRCLECI"       -> load_config_from_circle(environ)
      [] sentinel = "GITHUB_ACTIONS" -> load_config_from_github(environ)
      [] sentinel = "JENKINS_HOME"   -> load_config_from_jenkins(environ)
      [] sentinel = "TRAVIS"         -> load_config_from_travis(environ)
      [] sentinel = "SEMAPHORE"      -> load_config_from_semaphore(environ)
      [] OTHER -> Result("coveralls-python", None, None, None)

\* the generic CI_* pass alone
GenericSupplied == load_config_from_generic_ci_environment(EmptyDict, environ)

\* the configuration the detection pass leaves when only rule r takes effect
AfterRule(r, github) ==
    LET c1 == IF github THEN DictSet(GenericSupplied, "repo_token",
                                     environ["GITHUB_TOKEN"])
              ELSE GenericSupplied
        c2 == IF "service_name" \in DOMAIN c1 THEN c1
              ELSE DictSet(c1, "service_name", r.name)
        c3 == DictUpdate(c2, NonEmpty(
                [k \in {"service_job_id", "service_number",
                        "service_pull_request"} |->
                    CASE k = "service_job_id" -> r.job
                      [] k = "service_number" -> r.number
                      [] k = "service_pull_request" -> r.pr]))
    IN  c3

\* C6: detection chooses the first provider of the fixed order whose sentinel
\* is set, else the unknown provider, and only that provider's rule takes
\* effect: its job/number/PR, the token waiver only if it is Travis, the
\* GITHUB_TOKEN override only if it is GitHub Actions.
C6_OneProvider ==
    pc # "ci" =>
        /\ detected = RuleOf(FirstSentinelSet)
        /\ tokreq = (token_required /\ FirstSentinelSet # "TRAVIS")
        /\ pc = "env" =>
              config = AfterRule(RuleOf(FirstSentinelSet),
                                 FirstSentinelSet = "GITHUB_ACTIONS")

\* GitHub Actions is chosen although TRAVIS and its variables are set too: the
\* requirement is not waived and the Travis job id is not used
C6_Witness ==
    /\ pc = "env"
    /\ Truthy(environ["GITHUB_ACTIONS"])
    /\ Truthy(environ["TRAVIS"])
    /\ Truthy(environ["TRAVIS_JOB_ID"])
    /\ ~Truthy(environ["APPVEYOR"])
    /\ detected.name = Str(<<"github">>)
    /\ tokreq
    /\ Truthy(environ["GITHUB_RUN_ID"])
    /\ DictGet(config, "service_job_id") = environ["GITHUB_RUN_ID"]

NoSentinel == \A v \in Sentinels : ~Truthy(environ[v])

JobNumberPr == {"service_job_id", "service_number", "service_pull_request"}

\* C7 as claimed: with no sentinel set the unknown provider is chosen and the
\* detection pass leaves no job, number or pull request entry.
C7_Claimed ==
    (NoSentinel /\ pc = "env") =>
        /\ detected.name = Str(<<"coveralls-python">>)
        /\ config["service_name"] = Str(<<"coveralls-python">>)
        /\ DOMAIN config \cap JobNumberPr = {}

\* C7 amended: with no sentinel set the unknown provider is chosen and gives no
\* job, number or pull request; the entries the detection pass leaves are those
\* of the generic CI_* pass (CI_NAME, CI_JOB_ID, CI_BUILD_NUMBER, trailing
\* digits of CI_PULL_REQUEST), so there are none when these are unset too.
C7_UnknownProvider ==
    (NoSentinel /\ pc = "env") =>
        /\ detected = Result("coveralls-python", None, None, None)
        /\ config["service_name"] =
              Or(environ["CI_NAME"], Str(<<"coveralls-python">>))
        /\ \A k \in JobNumberPr : k \in DOMAIN config <=> k \in DOMAIN GenericSupplied
        /\ (\A v \in GenericVars : ~Truthy(environ[v])) =>
              config = One("service_name", Str(<<"coveralls-python">>))

C7_Witness ==
    /\ pc = "env"
    /\ \A v \in EnvVars : environ[v] = None
    /\ config = One("service_name", Str(<<"coveralls-python">>))

NothingConfigured ==
    /\ cfgfile.kind = "missing"
    /\ \A v \in EnvVars : environ[v] = None

\* C8 as claimed: with no config file and no environment variable,
\* construction never raises.
C8_Claimed == NothingConfigured => pc # "raised"

\* the defaults plus the call-site overrides
DefaultsAndOverrides ==
    LET kw == IF Truthy(DictGet(kwargs, "coveralls_host"))
              THEN DictPop(kwargs, "coveralls_host") ELSE kwargs
        c  == DictUpdate(One("service_name", Str(<<"coveralls-python">>)), kw)
    IN  IF Truthy(service_name) THEN DictSet(c, "service_name", service_name)
        ELSE c

\* C8 amended: with no config file and no environment variable, load_config
\* completes and leaves the defaults plus the call-site overrides; construction
\* then raises CoverallsException (from ensure_token) exactly when
\* token_required is true and the caller gave no non-empty repo_token.
C8_DefaultsOnly ==
    NothingConfigured =>
        /\ pc = "raised" => raised = "CoverallsException"
        /\ pc \in {"ensure", "done", "raised"} => config = DefaultsAndOverrides
        /\ pc \in {"done", "raised"} =>
              (pc = "raised" <=>
                  token_required /\ ~Truthy(DictGet(kwargs, "repo_token")))

C8_Witness ==
    /\ NothingConfigured
    /\ pc = "done"
    /\ kwargs = CliKwargs
    /\ ~token_required

\* C9: the config file step never raises, and a file that is missing or cannot
\* be parsed leaves the configuration as it was.
C9_FileStepNeverRaises ==
    [][pc = "file" =>
          /\ pc' = "callsite"
          /\ cfgfile.kind # "mapping" => config' = config]_vars

Init == ConfigInit /\ GitIdle /\ DocIdle /\ MainIdle

Spec == Init /\ [][ConfigNext]_vars

-----------------------------------------------------------------------------
(* The report document: create_data, merge, create_report *)

\* the number of calls made on one instance
MaxCalls == 2

\* a source file record {name, source, coverage}
SourceFile(name) ==
    [name |-> Str(<<name>>),
     source |-> Str(<<"x = ", "\"", "s", "\"", "\n">>),
     coverage |-> <<PyInt(<<"1">>), None, PyInt(<<"0">>)>>]

NoExtra == [given |-> FALSE, d |-> EmptyDict]
Extra(d) == [given |-> TRUE, d |-> d]

\* bool(extra)
ExtraTruthy(extra) == extra.given /\ DOMAIN extra.d # {}

\* bool(self._data): a built document is a dict that holds source_files
DataTruthy(d) == d.built

Built(files, git, conf) ==
    [built |-> TRUE, source_files |-> files, git |-> git, conf |-> conf]

\* mutant: the external entries replace the local ones
Extend_Replaces(files, more) == more

\* self._data['source_files'].extend(extra['source_files'])
Extend(files, more) == files \o more

\* mutant: the document is rebuilt on every call
create_data_NoMemo(d, cov, git, cfg, extra) ==
    IF cov.kind = "raise"
    THEN [data |-> d, exc |-> "CoverageException", value |-> d,
          ncov |-> 1, ngit |-> 0]
    ELSE LET files == IF ExtraTruthy(extra) /\ "source_files" \in DOMAIN extra.d
                      THEN Extend(cov.files, extra.d["source_files"])
                      ELSE cov.files
             doc == Built(files, git, cfg)
         IN  [data |-> doc, exc |-> NoExc, value |-> doc, ncov |-> 1, ngit |-> 1]

\* create_data(extra) on an instance whose _data is d, when get_coverage() gives
\* cov and git_info() gives git: the new _data, what is raised or returned, and
\* how many times coverage and git were gathered
create_data(d, cov, git, cfg, extra) ==
    IF DataTruthy(d)
    THEN [data |-> d, exc |-> NoExc, value |-> d, ncov |-> 0, ngit |-> 0]
    ELSE IF cov.kind = "raise"
    THEN [data |-> d, exc |-> "CoverageException", value |-> d,
          ncov |-> 1, ngit |-> 0]
    ELSE LET files == IF ExtraTruthy(extra) /\ "source_files" \in DOMAIN extra.d
                      THEN Extend(cov.files, extra.d["source_files"])
                      ELSE cov.files
             doc == Built(files, git, cfg)
         IN  [data |-> doc, exc |-> NoExc, value |-> doc, ncov |-> 1, ngit |-> 1]

\* merge(path): f is what open(path) and json.load give
merge(d, cov, git, cfg, f) ==
    CASE f.kind = "missing" ->
            [data |-> d, exc |-> "OSError", value |-> d, ncov |-> 0, ngit |-> 0]
      [] f.kind = "invalid" ->
            [data |-> d, exc |-> "JSONDecodeError", value |-> d,
             ncov |-> 0, ngit |-> 0]
      [] f.kind = "json" -> create_data(d, cov, git, cfg, Extra(f.d))

(* json.dumps *)

RECURSIVE Escape(_)
Escape(s) ==
    IF s = <<>> THEN <<>>
    ELSE (CASE Head(s) = "\"" -> <<"\\", "\"">>
            [] Head(s) = "\\" -> <<"\\", "\\">>
            [] Head(s) = "\n" -> <<"\\", "n">>
            [] Head(s) = "\t" -> <<"\\", "t">>
            [] OTHER -> <<Head(s)>>) \o Escape(Tail(s))

JsonString(s) == <<"\"">> \o Escape(s) \o <<"\"">>

JsonValue(v) ==
    CASE v.t = "none" -> <<"null">>
      [] v.t = "str"  -> JsonString(v.s)
      [] v.t = "bool" -> IF v.s = <<"True">> THEN <<"true">> ELSE <<"false">>
      [] v.t = "int"  -> v.s

RECURSIVE Join(_, _)
Join(parts, sep) ==
    IF parts = <<>> THEN <<>>
    ELSE IF Len(parts) = 1 THEN parts[1]
    ELSE parts[1] \o sep \o Join(Tail(parts), sep)

JsonList(parts) == <<"[">> \o Join(parts, <<",", " ">>) \o <<"]">>

\* items: a sequence of <<key, encoded value>>
JsonObject(items) ==
    <<"{">>
    \o Join([i \in 1..Len(items) |->
                <<"\"", items[i][1], "\"", ":", " ">> \o items[i][2]],
            <<",", " ">>)
    \o <<"}">>

JsonSourceFile(f) ==
    JsonObject(<<
        <<"name", JsonValue(f.name)>>,
        <<"source", JsonValue(f.source)>>,
        <<"coverage",
          JsonList([i \in 1..Len(f.coverage) |-> JsonValue(f.coverage[i])])>> >>)

JsonGit(g) ==
    JsonObject(<<
        <<"branch", JsonValue(g.branch)>>,
        <<"head", JsonObject([i \in 1..Len(HeadFields) |->
                     <<HeadFields[i], JsonValue(g.head[HeadFields[i]])>>])>>,
        <<"remotes", JsonList([i \in 1..Len(g.remotes) |->
                        JsonObject(<<
                            <<"name", JsonValue(g.remotes[i].name)>>,
                            <<"url", JsonValue(g.remotes[i].url)>> >>)])>> >>)

\* the keys of the configuration, in the order they are written
ConfigKeyOrder ==
    <<"service_name", "service_number", "service_build_url", "service_job_id",
      "service_branch", "service_pull_request", "repo_token", "parallel",
      "flag_name", "service_job_number", "config_file", "base_dir", "src_dir">>

\* json.dumps(data)
json_dumps(doc) ==
    LET IsSet(k) == k \in DOMAIN doc.conf
        keys == SelectSeq(ConfigKeyOrder, IsSet)
    IN  JsonObject(
            << <<"source_files",
                 JsonList([i \in 1..Len(doc.source_files) |->
                              JsonSourceFile(doc.source_files[i])])>> >>
            \o (IF "git" \in DOMAIN doc.git
                THEN << <<"git", JsonGit(doc.git["git"])>> >> ELSE <<>>)
            \o [i \in 1..Len(keys) |-> <<keys[i], JsonValue(doc.conf[keys[i]])>>])

(* re.sub(r'"repo_token": "(.+?)"', '"repo_token": "[secure]"', json_string) *)

TokenPrefix == <<"\"", "repo_token", "\"", ":", " ", "\"">>

Secure == TokenPrefix \o <<"[secure]", "\"">>

\* where (.+?)" ends in rest: the first quote after at least
\* one character, with no newline before it; 0 when there is none
GroupEnd(rest) ==
    LET ends == {j \in 2..Len(rest) :
                    /\ rest[j] = "\""
                    /\ \A i \in 1..(j - 1) : rest[i] # "\n"}
    IN  IF ends = {} THEN 0 ELSE CHOOSE j \in ends : \A i \in ends : j <= i

\* whether the pattern matches at position i of s
MatchesAt(s, i) ==
    /\ i + Len(TokenPrefix) - 1 <= Len(s)
    /\ SubSeq(s, i, i + Len(TokenPrefix) - 1) = TokenPrefix
    /\ GroupEnd(SubSeq(s, i + Len(TokenPrefix), Len(s))) # 0

\* every non-overlapping match, leftmost first, is replaced
RECURSIVE Redact(_)
Redact(s) ==
    LET starts == {i \in 1..Len(s) : MatchesAt(s, i)}
    IN  IF starts = {} THEN s
        ELSE LET i == CHOOSE x \in starts : \A y \in starts : x <= y
                 rest == SubSeq(s, i + Len(TokenPrefix), Len(s))
             IN  SubSeq(s, 1, i - 1) \o Secure
                 \o Redact(SubSeq(rest, GroupEnd(rest) + 1, Len(rest)))

\* create_report: the document, the string returned and the string logged
create_report(d, cov, git, cfg) ==
    LET r == create_data(d, cov, git, cfg, NoExtra)
    IN  IF r.exc # NoExc
        THEN [data |-> r.data, exc |-> r.exc, json_string |-> <<>>,
              log_string |-> <<>>, ncov |-> r.ncov, ngit |-> r.ngit]
        ELSE [data |-> r.data, exc |-> NoExc,
              json_string |-> json_dumps(r.data),
              log_string |-> Redact(json_dumps(r.data)),
              ncov |-> r.ncov, ngit |-> r.ngit]

(* The calls made on a constructed instance, and the world changing between *)

Count(r) ==
    [calls |-> counts.calls + 1,
     coverage |-> counts.coverage + r.ncov,
     git |-> counts.git + r.ngit]

Extras ==
    {NoExtra,
     Extra(EmptyDict),
     Extra(One("source_files", <<SourceFile("x.py")>>)),
     Extra(One("source_files", <<>>)),
     Extra(One("name", <<SourceFile("x.py")>>))}

CallCreateData ==
    /\ counts.calls < MaxCalls
    /\ \E extra \in Extras :
          LET r == create_data(data, coverage_now, git_now, config, extra)
          IN  /\ data' = r.data
              /\ returned' = [exc |-> r.exc, value |-> r.value]
              /\ counts' = Count(r)
              /\ op' = [name |-> "create_data", arg |-> extra]
    /\ UNCHANGED <<coverage_now, git_now, log_string, cfgvars, gitvars,
                   mainvars>>

MergeFiles ==
    {[kind |-> "missing"], [kind |-> "invalid"]}
    \cup {[kind |-> "json", d |-> x.d] : x \in Extras \ {NoExtra}}

CallMerge ==
    /\ counts.calls < MaxCalls
    /\ \E f \in MergeFiles :
          LET r == merge(data, coverage_now, git_now, config, f)
          IN  /\ data' = r.data
              /\ returned' = [exc |-> r.exc]
              /\ counts' = Count(r)
              /\ op' = [name |-> "merge",
                        arg |-> IF f.kind = "json" THEN Extra(f.d) ELSE NoExtra]
    /\ UNCHANGED <<coverage_now, git_now, log_string, cfgvars, gitvars,
                   mainvars>>

CallCreateReport ==
    /\ counts.calls < MaxCalls
    /\ LET r == create_report(data, coverage_now, git_now, config)
       IN  /\ data' = r.data
           /\ returned' = [exc |-> r.exc, value |-> r.json_string]
           /\ log_string' = r.log_string
           /\ counts' = Count(r)
           /\ op' = [name |-> "create_report", arg |-> NoExtra]
    /\ UNCHANGED <<coverage_now, git_now, cfgvars, gitvars,
                   mainvars>>

CoverageChoices ==
    {[kind |-> "raise"],
     [kind |-> "ok", files |-> <<>>],
     [kind |-> "ok", files |-> <<SourceFile("a.py"), SourceFile("b.py")>>]}

\* the coverage data on disk changes
CoverageChanges ==
    /\ counts.calls < MaxCalls
    /\ \E c \in CoverageChoices \ {coverage_now} : coverage_now' = c
    /\ UNCHANGED <<data, git_now, op, returned, counts, log_string,
                   cfgvars, gitvars,
                   mainvars>>

Commit(url) ==
    GitDict(Str(<<"main">>),
            [f \in {HeadFields[i] : i \in 1..6} |-> Str(<<f>>)],
            <<[name |-> Str(<<"origin">>), url |-> Str(url)]>>)

GitChoices ==
    {EmptyDict,
     Commit(<<"https:", "/", "/", "host", "/", "repo.git">>),
     Commit(<<"https:", "/", "/", "tok", "@", "host", "/", "repo.git">>)}

\* the repository changes
GitChanges ==
    /\ counts.calls < MaxCalls
    /\ \E g \in GitChoices \ {git_now} : git_now' = g
    /\ UNCHANGED <<data, coverage_now, op, returned, counts, log_string,
                   cfgvars, gitvars,
                   mainvars>>

\* configurations construction leaves, by the repo_token given
ReportConfigs ==
    LET name == One("service_name", Str(<<"coveralls-python">>))
    IN  {name} \cup
        {DictSet(name, "repo_token", tok) :
            tok \in {Str(<<"tok">>), Str(<<"a", "\"", "b">>),
                     PyInt(<<"1", "2">>)}}
        \cup {DictSet(DictSet(name, "repo_token", Str(<<"tok">>)),
                      "flag_name", Str(<<"flag">>))}

\* the caller changes self.config
ConfigChanges ==
    /\ counts.calls < MaxCalls
    /\ \E c \in ReportConfigs \ {config} : config' = c
    /\ UNCHANGED <<environ, cfgfile, kwargs, service_name, token_required,
                   tokreq, host, detected, pc, raised, gitvars, docvars,
                   mainvars>>

ReportNext ==
    \/ CallCreateData
    \/ CallMerge
    \/ CallCreateReport
    \/ CoverageChanges
    \/ GitChanges
    \/ ConfigChanges

InitReport ==
    /\ Constructed
    /\ environ = EnvOf({})
    /\ config \in ReportConfigs
    /\ GitIdle
    /\ data = NoData
    /\ coverage_now \in CoverageChoices
    /\ git_now \in GitChoices
    /\ op = [name |-> "none"]
    /\ returned = [exc |-> NoExc]
    /\ counts = [calls |-> 0, coverage |-> 0, git |-> 0]
    /\ log_string = <<>>
    /\ MainIdle

SpecReport == InitReport /\ [][ReportNext]_vars

(* Properties of the report document *)

\* a call was made in this step
Called == counts'.calls = counts.calls + 1

\* C3: once a call has built the document, every later call leaves it as it
\* is, gathers neither coverage nor git metadata again, and create_data
\* returns that document, whatever extra, the coverage data, the repository
\* and the configuration are by then.
C3_Memoized ==
    [][(DataTruthy(data) /\ Called) =>
          /\ data' = data
          /\ counts'.coverage = counts.coverage
          /\ counts'.git = counts.git
          /\ op'.name = "create_data" =>
                returned' = [exc |-> NoExc, value |-> data]]_vars

\* a second create_data, with an external report, after the coverage data and
\* the configuration have changed, returned the first document
C3_Witness ==
    /\ counts.calls = 2
    /\ op.name = "create_data"
    /\ ExtraTruthy(op.arg)
    /\ "source_files" \in DOMAIN op.arg.d
    /\ data.built
    /\ returned = [exc |-> NoExc, value |-> data]
    /\ data.source_files = <<SourceFile("a.py"), SourceFile("b.py")>>
    /\ coverage_now = [kind |-> "ok", files |-> <<>>]
    /\ data.conf # config
    /\ counts.coverage = 1
    /\ counts.git = 1

\* a call that returned and whose argument holds source_files
MergedReport ==
    /\ Called
    /\ op'.name \in {"merge", "create_data"}
    /\ returned'.exc = NoExc
    /\ ExtraTruthy(op'.arg)
    /\ "source_files" \in DOMAIN op'.arg.d

\* the files of the document before the call: those already in it, or those
\* the call gathers
LocalFiles == IF data.built THEN data.source_files ELSE coverage_now.files

\* C4 as claimed: merging an external report appends its source_files to the
\* local ones, also when the document has been assembled before.
C4_Claimed ==
    [][MergedReport =>
          data'.source_files = LocalFiles \o op'.arg.d["source_files"]]_vars

\* C4 amended: merging an external report into a document not assembled yet
\* leaves local entries first and the external ones appended in order; once
\* the document has been assembled, merging leaves it unchanged.
C4_MergeAppends ==
    [][MergedReport =>
          IF data.built THEN data' = data
          ELSE data'.source_files =
                  coverage_now.files \o op'.arg.d["source_files"]]_vars

\* merge was the first call and the document holds [A, B, X]
C4_Witness ==
    /\ counts.calls = 1
    /\ op.name = "merge"
    /\ data.built
    /\ data.source_files =
          <<SourceFile("a.py"), SourceFile("b.py"), SourceFile("x.py")>>

\* sub occurs in s
Contains(s, sub) ==
    \E i \in 1..(Len(s) - Len(sub) + 1) : SubSeq(s, i, i + Len(sub) - 1) = sub

\* C10: when the document's repo_token is non-empty, the string create_report
\* logs does not contain the token, while the string it returns and the
\* cached document hold it unchanged.
C10_TokenNotLogged ==
    (/\ op.name = "create_report"
     /\ returned.exc = NoExc
     /\ Truthy(DictGet(data.conf, "repo_token"))) =>
        LET token == data.conf["repo_token"]
        IN  /\ ~Contains(log_string, token.s)
            /\ Contains(returned.value,
                        <<"\"", "repo_token", "\"", ":", " ">> \o JsonValue(token))
            /\ returned.value = json_dumps(data)

-----------------------------------------------------------------------------
(* Submission: httpx.post, submit_report, parallel_finish, wear, save_report *)

PyFalse == [t |-> "bool", s |-> <<"False">>]
PyList(items) == [t |-> "list", items |-> items]
PyDict(d) == [t |-> "dict", d |-> d]

\* the variables the submission calls read besides those of construction
SubmitVars == {"GITHUB_REPOSITORY", "COVERALLS_SKIP_SSL_VERIFY"}

\* what httpx.post does:
\*   "error" it raises (no connection, timeout, ...)
\*   "http"  it returns a response with a status code and a body; the body is
\*           "undecodable" (response.json() raises) or holds a JSON value
ConnectionFailed == [kind |-> "error"]
Http(status, value) ==
    [kind |-> "http", status |-> status, decodes |-> TRUE, value |-> value]
HttpUndecodable(status) ==
    [kind |-> "http", status |-> status, decodes |-> FALSE, value |-> None]

\* response.raise_for_status() returns: the status is 2xx
IsSuccess(resp) == resp.status >= 200 /\ resp.status < 300

\* host.rstrip('/')
RECURSIVE RStripSlash(_)
RStripSlash(s) ==
    IF s # <<>> /\ s[Len(s)] = "/"
    THEN RStripSlash(SubSeq(s, 1, Len(s) - 1)) ELSE s

\* verify = not bool(os.environ.get('COVERALLS_SKIP_SSL_VERIFY'))
Verify(e) == ~Truthy(Getenv(e, "COVERALLS_SKIP_SSL_VERIFY"))

\* key in v: whether it holds, or the TypeError of a value that is no container
In(key, v) ==
    CASE v.t = "dict" -> [exc |-> NoExc, holds |-> key \in DOMAIN v.d]
      [] v.t = "list" ->
            [exc |-> NoExc,
             holds |-> \E i \in 1..Len(v.items) : v.items[i] = Str(<<key>>)]
      [] v.t = "str"  -> [exc |-> NoExc, holds |-> Contains(v.s, <<key>>)]
      [] OTHER        -> [exc |-> "TypeError", holds |-> FALSE]

\* v[key] for a string key
Subscript(v, key) ==
    IF v.t = "dict"
    THEN IF key \in DOMAIN v.d THEN [exc |-> NoExc, value |-> v.d[key]]
         ELSE [exc |-> "KeyError", value |-> None]
    ELSE [exc |-> "TypeError", value |-> None]

\* the notice parallel_finish posts
FinishPayload(cfg, e) ==
    LET inner == IF Truthy(DictGet(cfg, "service_number"))
                 THEN DictSet(One("status", Str(<<"done">>)),
                              "build_num", cfg["service_number"])
                 ELSE One("status", Str(<<"done">>))
        p0 == One("payload", inner)
        p1 == IF Truthy(DictGet(cfg, "repo_token"))
              THEN DictSet(p0, "repo_token", cfg["repo_token"]) ELSE p0
        p2 == IF Truthy(Getenv(e, "GITHUB_REPOSITORY"))
              THEN DictSet(p1, "repo_name", Getenv(e, "GITHUB_REPOSITORY"))
              ELSE p1
    IN  p2

Raise(post, exc) == [post |-> post, exc |-> exc, value |-> None]
Return(post, value) == [post |-> post, exc |-> NoExc, value |-> value]

\* mutant: a response without a done field is accepted
FinishChecks_DoneOptional(post, v) ==
    LET hasError == In("error", v)
        hasDone  == In("done", v)
    IN  IF hasError.exc # NoExc THEN Raise(post, hasError.exc)
        ELSE IF hasError.holds
        THEN IF Subscript(v, "error").exc # NoExc
             THEN Raise(post, Subscript(v, "error").exc)
             ELSE Raise(post, "CoverallsException")
        ELSE IF ~hasDone.holds THEN Return(post, v)
        ELSE IF Subscript(v, "done").exc # NoExc
        THEN Raise(post, Subscript(v, "done").exc)
        ELSE IF ~Truthy(Subscript(v, "done").value)
        THEN Raise(post, "CoverallsException")
        ELSE Return(post, v)

\* the checks parallel_finish makes on the decoded body
FinishChecks(post, v) ==
    LET hasError == In("error", v)
        hasDone  == In("done", v)
    IN  IF hasError.exc # NoExc THEN Raise(post, hasError.exc)
        ELSE IF hasError.holds
        THEN IF Subscript(v, "error").exc # NoExc
             THEN Raise(post, Subscript(v, "error").exc)
             ELSE Raise(post, "CoverallsException")
        ELSE IF ~hasDone.holds THEN Raise(post, "CoverallsException")
        ELSE IF Subscript(v, "done").exc # NoExc
        THEN Raise(post, Subscript(v, "done").exc)
        ELSE IF ~Truthy(Subscript(v, "done").value)
        THEN Raise(post, "CoverallsException")
        ELSE Return(post, v)

\* parallel_finish on an instance with config cfg and host h, when httpx.post
\* does resp: the call of httpx.post made, and what is raised or returned
parallel_finish(cfg, h, e, resp) ==
    LET post == [endpoint |-> RStripSlash(h.s) \o <<"/", "webhook">>,
                 json |-> FinishPayload(cfg, e),
                 verify |-> Verify(e)]
    IN  IF resp.kind = "error" THEN Raise(post, "TransportError")
        ELSE IF ~IsSuccess(resp) \/ ~resp.decodes
        THEN Raise(post, "CoverallsException")
        ELSE FinishChecks(post, resp.value)

\* submit_report(json_string)
submit_report(cfg, h, e, json_string, resp) ==
    LET post == [endpoint |-> RStripSlash(h.s)
                                 \o <<"/", "api", "/", "v1", "/", "jobs">>,
                 files |-> One("json_file", json_string),
                 verify |-> Verify(e)]
    IN  IF resp.kind = "error" THEN Raise(post, "TransportError")
        ELSE IF resp.status = 422 /\ "service_name" \notin DOMAIN cfg
        THEN Raise(post, "KeyError")
        ELSE IF ~IsSuccess(resp) \/ ~resp.decodes
        THEN Raise(post, "CoverallsException")
        ELSE Return(post, resp.value)

(* parallel_finish called on a constructed instance *)

\* os.environ with the settings of set, over all the variables read
SubmitEnvOf(set) ==
    [v \in EnvVars \cup SubmitVars |->
        IF \E p \in set : p[1] = v
        THEN (CHOOSE p \in set : p[1] = v)[2]
        ELSE None]

SubmitEnvs ==
    {SubmitEnvOf(r \cup s) :
        r \in {{}, {<<"GITHUB_REPOSITORY", Str(<<"owner", "/", "repo">>)>>},
               {<<"GITHUB_REPOSITORY", Str(<<>>)>>}},
        s \in {{}, {<<"COVERALLS_SKIP_SSL_VERIFY", Str(<<"1">>)>>}}}

\* the bodies the webhook may answer with
FinishBodies ==
    {PyDict(One("done", PyTrue)),
     PyDict(One("done", PyFalse)),
     PyDict(One("done", Str(<<>>))),
     PyDict(EmptyDict),
     PyDict(One("error", Str(<<"no build">>))),
     PyDict(DictSet(One("done", PyTrue), "error", Str(<<"no build">>))),
     PyDict(DictSet(One("done", PyTrue), "jobs", PyInt(<<"2">>))),
     None,
     PyInt(<<"1">>),
     Str(<<"done">>),
     PyList(<<>>),
     PyList(<<Str(<<"error">>)>>)}

FinishResponses ==
    {ConnectionFailed, HttpUndecodable(200), HttpUndecodable(500),
     Http(500, PyDict(One("done", PyTrue))),
     Http(201, PyDict(One("done", PyTrue)))}
    \cup {Http(200, v) : v \in FinishBodies}

\* configurations, by the repo_token and service_number they hold
FinishConfigs ==
    LET name == One("service_name", Str(<<"coveralls-python">>))
    IN  {DictUpdate(name, DictUpdate(a, b)) :
            a \in {EmptyDict, One("repo_token", Str(<<"tok">>)),
                   One("repo_token", Str(<<>>))},
            b \in {EmptyDict, One("service_number", Str(<<"4", "2">>)),
                   One("service_number", Str(<<>>))}}

CallParallelFinish ==
    /\ posts = <<>>
    /\ \E resp \in FinishResponses :
          LET r == parallel_finish(config, host, environ, resp)
          IN  /\ posts' = Append(posts, r.post)
              /\ response' = resp
              /\ result' = [exc |-> r.exc, value |-> r.value]
              /\ events' = Append(events, "parallel_finish")
    /\ UNCHANGED <<cfgvars, gitvars, docvars, options, mpc, exit_code>>

InitFinish ==
    /\ environ \in SubmitEnvs
    /\ config \in FinishConfigs
    /\ host \in {DefaultHost, Str(<<"https:", "/", "/", "example.org">>)}
    /\ cfgfile = NoFile
    /\ kwargs = EmptyDict
    /\ service_name = None
    /\ token_required \in BOOLEAN
    /\ tokreq = token_required
    /\ ensure_token(config, tokreq, environ) = NoExc
    /\ detected = NoResult
    /\ pc = "done"
    /\ raised = NoExc
    /\ GitIdle
    /\ DocIdle
    /\ MainIdle

SpecFinish == InitFinish /\ [][CallParallelFinish]_vars

(* Properties of parallel_finish *)

\* the webhook answered, and parallel_finish has looked at the answer
Answered == posts # <<>> /\ response.kind = "http"

\* the fields of the answer: those of a JSON object, none otherwise
HasField(name) ==
    /\ response.decodes
    /\ response.value.t = "dict"
    /\ name \in DOMAIN response.value.d

\* the answer is one the notice counts as success
Succeeded ==
    /\ IsSuccess(response)
    /\ response.decodes
    /\ ~HasField("error")
    /\ HasField("done")
    /\ Truthy(response.value.d["done"])

\* the notice posted carries status done, and build_num, repo_token and
\* repo_name exactly when their sources are non-empty
NoticeAsConfigured ==
    LET notice == posts[1].json
        number == DictGet(config, "service_number")
        token  == DictGet(config, "repo_token")
        repo   == Getenv(environ, "GITHUB_REPOSITORY")
    IN  /\ notice["payload"]["status"] = Str(<<"done">>)
        /\ DOMAIN notice["payload"] \subseteq {"status", "build_num"}
        /\ DOMAIN notice \subseteq {"payload", "repo_token", "repo_name"}
        /\ "build_num" \in DOMAIN notice["payload"] <=> Truthy(number)
        /\ Truthy(number) => notice["payload"]["build_num"] = number
        /\ "repo_token" \in DOMAIN notice <=> Truthy(token)
        /\ Truthy(token) => notice["repo_token"] = token
        /\ "repo_name" \in DOMAIN notice <=> Truthy(repo)
        /\ Truthy(repo) => notice["repo_name"] = repo

-----------------------------------------------------------------------------
(* main (cli.py): one run of the command line *)

\* bool(v), for the values a response body decodes to
Bool(v) ==
    CASE v.t = "dict" -> DOMAIN v.d # {}
      [] v.t = "list" -> v.items # <<>>
      [] OTHER        -> Truthy(v)

\* the end of __init__: ensure_token on the resolved configuration
ConstructEnsureToken(ci, cs, e) ==
    [config |-> cs.config, host |-> cs.host, tokreq |-> ci.tokreq,
     detected |-> ci.result, raised |-> ensure_token(cs.config, ci.tokreq, e)]

\* load_config after load_config_from_file: the call-site overrides, unless
\* the file step raised
ConstructCallSite(ci, env, fil, sname, kw, e) ==
    IF fil.raised # NoExc
    THEN [config |-> fil.config, host |-> env.host, tokreq |-> ci.tokreq,
          detected |-> ci.result, raised |-> fil.raised]
    ELSE ConstructEnsureToken(
             ci, ApplyCallSite(fil.config, env.host, kw, sname), e)

\* load_config after load_config_from_environment
ConstructFromFile(ci, env, sname, kw, e, f) ==
    ConstructCallSite(ci, env, load_config_from_file(env.config, f),
                      sname, kw, e)

\* load_config after load_config_from_ci_environment
ConstructFromEnvironment(ci, sname, kw, e, f) ==
    ConstructFromFile(
        ci, load_config_from_environment(ci.config, DefaultHost, e),
        sname, kw, e, f)

\* Coveralls(token_required, service_name=sname, **kw): load_config and
\* ensure_token, in the environment e with the config file f
Construct(treq, sname, kw, e, f) ==
    ConstructFromEnvironment(
        load_config_from_ci_environment(EmptyDict, treq, e), sname, kw, e, f)

\* what wear returns or raises once create_report has returned r
Submitted(r, s) ==
    [report |-> r, posts |-> <<s.post>>, exc |-> s.exc, value |-> s.value]

\* mutant: a dry run submits the report as well
WearReport_DryRunSubmits(r, cfg, h, e, dry_run, resp) ==
    IF r.exc # NoExc
    THEN [report |-> r, posts |-> <<>>, exc |-> r.exc, value |-> None]
    ELSE Submitted(r, submit_report(cfg, h, e, r.json_string, resp))

\* wear after json_string = self.create_report(), which gave r
WearReport(r, cfg, h, e, dry_run, resp) ==
    IF r.exc # NoExc
    THEN [report |-> r, posts |-> <<>>, exc |-> r.exc, value |-> None]
    ELSE IF dry_run
    THEN [report |-> r, posts |-> <<>>, exc |-> NoExc,
          value |-> PyDict(EmptyDict)]
    ELSE Submitted(r, submit_report(cfg, h, e, r.json_string, resp))

\* wear(dry_run): the report created, the calls of httpx.post made, and what
\* is raised or returned
wear(d, cov, git, cfg, h, e, dry_run, resp) ==
    WearReport(create_report(d, cov, git, cfg), cfg, h, e, dry_run, resp)

\* save_report after report = self.create_report(), which gave r: a
\* CoverageException is logged and not raised again; otherwise the report is
\* written, which open() may refuse
SaveReport(r, writable) ==
    IF r.exc = "CoverageException"
    THEN [report |-> r, exc |-> NoExc, written |-> FALSE]
    ELSE IF r.exc # NoExc
    THEN [report |-> r, exc |-> r.exc, written |-> FALSE]
    ELSE IF ~writable
    THEN [report |-> r, exc |-> "OSError", written |-> FALSE]
    ELSE [report |-> r, exc |-> NoExc, written |-> TRUE]

\* save_report(file_path)
save_report(d, cov, git, cfg, writable) ==
    SaveReport(create_report(d, cov, git, cfg), writable)

\* the steps a call of create_data, merge or create_report took on a document d
AssemblyEvents(d, r) ==
    (IF r.ncov = 1 THEN <<"coverage">> ELSE <<>>)
    \o (IF ~DataTruthy(d) /\ DataTruthy(r.data) THEN <<"assembly">> ELSE <<>>)

ReportEvents(d, r) ==
    AssemblyEvents(d, r)
    \o (IF r.exc = NoExc THEN <<"serialization">> ELSE <<>>)

\* sys.exit(1) in the except clause of main, or main returning
Exit(code) == mpc' = "exited" /\ exit_code' = <<code>>

ExitBy(exc) == Exit(IF exc = NoExc THEN 0 ELSE 1)

\* what a call of create_report leaves on the instance
Reported(r) ==
    /\ data' = r.data
    /\ returned' = [exc |-> r.exc, value |-> r.json_string]
    /\ log_string' = r.log_string
    /\ counts' = Count(r)
    /\ op' = [name |-> "create_report", arg |-> NoExtra]

\* coverallz = Coveralls(token_required, config_file=..., service_name=..., ...)
MainConstruct ==
    /\ mpc = "start"
    /\ LET c == Construct(token_required, service_name, kwargs, environ, cfgfile)
       IN  /\ config' = c.config
           /\ host' = c.host
           /\ tokreq' = c.tokreq
           /\ detected' = c.detected
           /\ raised' = c.raised
           /\ pc' = IF c.raised = NoExc THEN "done" ELSE "raised"
           /\ events' = events \o <<"detection", "resolution">>
           /\ IF c.raised # NoExc THEN Exit(1)
              ELSE /\ mpc' = IF options.merge THEN "merge" ELSE "mode"
                   /\ UNCHANGED exit_code
    /\ UNCHANGED <<environ, cfgfile, kwargs, service_name, token_required,
                   gitvars, docvars, options, posts, response, result>>

\* if options['--merge']: coverallz.merge(options['--merge'])
MainMerge ==
    /\ mpc = "merge"
    /\ \E f \in MergeFiles :
          LET r == merge(data, coverage_now, git_now, config, f)
          IN  /\ data' = r.data
              /\ returned' = [exc |-> r.exc]
              /\ counts' = Count(r)
              /\ op' = [name |-> "merge",
                        arg |-> IF f.kind = "json" THEN Extra(f.d) ELSE NoExtra]
              /\ events' = events \o <<"merge">> \o AssemblyEvents(data, r)
              /\ IF r.exc # NoExc THEN Exit(1)
                 ELSE mpc' = "mode" /\ UNCHANGED exit_code
    /\ UNCHANGED <<cfgvars, gitvars, coverage_now, git_now, log_string,
                   options, posts, response, result>>

\* what httpx.post may do when a report is submitted
SubmitResponses ==
    {ConnectionFailed,
     HttpUndecodable(200),
     Http(500, PyDict(EmptyDict)),
     Http(422, PyDict(One("message", Str(<<"Couldn't find a repository">>)))),
     Http(200, PyDict(DictSet(One("message", Str(<<"Job #1.1">>)),
                              "url", Str(<<"https:", "/", "/", "coveralls.io",
                                           "/", "jobs", "/", "1">>)))),
     Http(200, PyDict(EmptyDict)),
     Http(200, PyList(<<Str(<<"ok">>)>>))}

\* what a call of wear that gave w leaves
Worn(w) ==
    /\ Reported(w.report)
    /\ events' = events \o ReportEvents(data, w.report)
                    \o [i \in 1..Len(w.posts) |-> "submission"]
    /\ posts' = posts \o w.posts
    /\ result' = [exc |-> w.exc, value |-> w.value]

\* if options['debug']: coverallz.wear(dry_run=True); return
MainDebug ==
    /\ mpc = "mode"
    /\ options.debug
    /\ \E resp \in SubmitResponses :
          /\ Worn(wear(data, coverage_now, git_now, config, host, environ,
                       TRUE, resp))
          /\ ExitBy(result'.exc)
    /\ UNCHANGED <<cfgvars, gitvars, coverage_now, git_now, options, response>>

\* what a call of save_report that gave s leaves
Saved(s) ==
    /\ Reported(s.report)
    /\ events' = events \o ReportEvents(data, s.report)
                    \o (IF s.written THEN <<"write">> ELSE <<>>)
    /\ result' = [exc |-> s.exc, value |-> None]

\* if options['--output']: coverallz.save_report(options['--output']); return
MainOutput ==
    /\ mpc = "mode"
    /\ ~options.debug
    /\ options.output
    /\ \E writable \in BOOLEAN :
          /\ Saved(save_report(data, coverage_now, git_now, config, writable))
          /\ ExitBy(result'.exc)
    /\ UNCHANGED <<cfgvars, gitvars, coverage_now, git_now, options, posts,
                   response>>

\* if options['--submit']: open the file, coverallz.submit_report(...); return
MainSubmit ==
    /\ mpc = "mode"
    /\ ~options.debug
    /\ ~options.output
    /\ options.submit
    /\ \/ /\ result' = [exc |-> "OSError", value |-> None]
          /\ Exit(1)
          /\ UNCHANGED <<posts, response, events>>
       \/ \E resp \in SubmitResponses :
             LET s == submit_report(config, host, environ,
                                    <<"{", "report", "}">>, resp)
             IN  /\ posts' = Append(posts, s.post)
                 /\ response' = resp
                 /\ events' = Append(events, "submission")
                 /\ result' = [exc |-> s.exc, value |-> s.value]
                 /\ ExitBy(s.exc)
    /\ UNCHANGED <<cfgvars, gitvars, docvars, options>>

\* what httpx.post may do when the parallel build is finished
FinishResponsesOfMain ==
    {ConnectionFailed,
     Http(500, PyDict(One("done", PyTrue))),
     Http(200, PyDict(One("done", PyTrue))),
     Http(200, PyDict(One("error", Str(<<"no build">>)))),
     Http(200, None)}

\* if options['--finish']: coverallz.parallel_finish(); return
MainFinish ==
    /\ mpc = "mode"
    /\ ~options.debug
    /\ ~options.output
    /\ ~options.submit
    /\ options.finish
    /\ \E resp \in FinishResponsesOfMain :
          LET r == parallel_finish(config, host, environ, resp)
          IN  /\ posts' = Append(posts, r.post)
              /\ response' = resp
              /\ events' = Append(events, "submission")
              /\ result' = [exc |-> r.exc, value |-> r.value]
              /\ ExitBy(r.exc)
    /\ UNCHANGED <<cfgvars, gitvars, docvars, options>>

\* if result: log.info(result.get('message')); log.info(result.get('url'))
LogResult(value) ==
    IF Bool(value) /\ value.t # "dict" THEN "AttributeError" ELSE NoExc

\* what result = coverallz.wear() and the logging of result leave
WornAndLogged(w) ==
    /\ Reported(w.report)
    /\ events' = events \o ReportEvents(data, w.report)
                    \o [i \in 1..Len(w.posts) |-> "submission"]
    /\ posts' = posts \o w.posts
    /\ result' = [exc |-> IF w.exc # NoExc THEN w.exc ELSE LogResult(w.value),
                  value |-> w.value]

\* result = coverallz.wear(), and the result logged
MainReport ==
    /\ mpc = "mode"
    /\ ~options.debug
    /\ ~options.output
    /\ ~options.submit
    /\ ~options.finish
    /\ \E resp \in SubmitResponses :
          /\ WornAndLogged(wear(data, coverage_now, git_now, config, host,
                                environ, FALSE, resp))
          /\ response' = IF posts' = posts THEN response ELSE resp
          /\ ExitBy(result'.exc)
    /\ UNCHANGED <<cfgvars, gitvars, coverage_now, git_now, options>>

MainNext ==
    \/ MainConstruct
    \/ MainMerge
    \/ MainDebug
    \/ MainOutput
    \/ MainSubmit
    \/ MainFinish
    \/ MainReport

\* the command lines: debug, --output, --submit, --finish, --merge, --service
OptionChoices ==
    {[debug |-> d, output |-> o, submit |-> s, finish |-> f, merge |-> m,
      service |-> n] :
        d \in BOOLEAN, o \in BOOLEAN, s \in BOOLEAN, f \in BOOLEAN,
        m \in BOOLEAN, n \in {None, Str(<<"github-actions">>)}}

MainEnvs ==
    {SubmitEnvOf({}),
     SubmitEnvOf({<<"COVERALLS_REPO_TOKEN", Str(<<"tok">>)>>}),
     SubmitEnvOf({<<"TRAVIS", TrueStr>>, <<"TRAVIS_JOB_ID", Str(<<"7">>)>>}),
     SubmitEnvOf({<<"COVERALLS_REPO_TOKEN", Str(<<"tok">>)>>,
                  <<"COVERALLS_SERVICE_NUMBER", Str(<<"4", "2">>)>>,
                  <<"GITHUB_REPOSITORY", Str(<<"owner", "/", "repo">>)>>})}

InitMain ==
    /\ \E o \in OptionChoices, e \in MainEnvs,
          f \in {NoFile, [kind |-> "malformed", content |-> EmptyDict]} :
          /\ Start(e, f, CliKwargs, o.service, ~o.debug /\ ~o.output)
          /\ options = o
    /\ GitIdle
    /\ data = NoData
    /\ coverage_now \in CoverageChoices
    /\ git_now \in {EmptyDict,
                    Commit(<<"https:", "/", "/", "host", "/", "repo.git">>)}
    /\ op = [name |-> "none"]
    /\ returned = [exc |-> NoExc]
    /\ counts = [calls |-> 0, coverage |-> 0, git |-> 0]
    /\ log_string = <<>>
    /\ mpc = "start"
    /\ exit_code = <<>>
    /\ events = <<>>
    /\ posts = <<>>
    /\ response = NoResponse
    /\ result = [exc |-> NoExc]

SpecMain == InitMain /\ [][MainNext]_vars

(* Properties of main *)

Happened(step) == \E i \in 1..Len(events) : events[i] = step

\* a failure was raised while the report was gathered, assembled or
\* serialized (returned), or by the step of the selected mode (result)
FailureRaised == returned.exc # NoExc \/ result.exc # NoExc

\* the step of the selected mode ran to its end
ModeCompleted ==
    CASE options.debug  -> Happened("serialization")
      [] options.output -> Happened("write")
      [] OTHER          -> Happened("submission") /\ result.exc = NoExc

\* C11: in every mode, a failure raised while gathering coverage, assembling
\* or serializing the report, or submitting it makes the process exit with
\* code 1, and the process exits with 0 only when the step of the selected
\* mode completed.
C11_FailFast ==
    mpc = "exited" =>
        /\ FailureRaised => exit_code = <<1>>
        /\ exit_code = <<0>> => ModeCompleted

\* the place of each step in a run
Rank(step) ==
    CASE step = "detection"     -> 1
      [] step = "resolution"    -> 2
      [] step = "merge"         -> 3
      [] step = "coverage"      -> 4
      [] step = "assembly"      -> 5
      [] step = "serialization" -> 6
      [] step = "write"         -> 7
      [] step = "submission"    -> 7

\* C13: the steps of a run happen in the order detection, resolution, merge,
\* assembly, submission, each at most once; httpx.post is called at most once,
\* and never in debug mode or with --output; coverage is gathered at most
\* once, also when --merge and the report step both ask for the document.
C13_Sequential ==
    /\ \A i, j \in 1..Len(events) :
          i < j => Rank(events[i]) < Rank(events[j])
    /\ Len(posts) <= 1
    /\ Happened("submission") <=> posts # <<>>
    /\ (options.debug \/ options.output) => posts = <<>>
    /\ counts.coverage <= 1
    /\ Happened("coverage") <=> counts.coverage = 1

\* a run with --merge that assembled the document in the merge step,
\* serialized it in the report step and submitted it once
C13_Witness ==
    /\ mpc = "exited"
    /\ exit_code = <<0>>
    /\ options.merge
    /\ events = <<"detection", "resolution", "merge", "coverage", "assembly",
                  "serialization", "submission">>
    /\ Len(posts) = 1
    /\ counts.coverage = 1
    /\ counts.calls = 2

=============================================================================
